---- MODULE Spec2Model ----
(***************************************************************************)
(* simple-dns-proxy (src/main.go): a DNS proxy that answers A questions    *)
(* from a YAML map of records, relays everything else to a fallback        *)
(* resolver, and reloads its configuration when the file changes.          *)
(*                                                                         *)
(* Strings the code inspects character by character (query names, record   *)
(* keys) are sequences of one-character strings; IPv4 literals are         *)
(* sequences of their dot-separated numbers; optional YAML fields are      *)
(* sequences of length 0 (absent) or 1 (present).                          *)
(***************************************************************************)
EXTENDS Integers, Sequences, FiniteSets, TLC

\* ------------------------------------------------------------------ bounds
MaxQuestions == 2
MaxEdits == 1

\* --------------------------------------------------------------- constants
TypeA == 1
TypeMX == 15
RcodeSuccess == 0
RcodeServerFailure == 2
RcodeNameError == 3
RcodeNotImplemented == 4
DefaultPort == 53
DefaultTtl == 3600

\* ----------------------------------------------------------------- strings
Lower(c) == IF c = "A" THEN "a" ELSE IF c = "B" THEN "b" ELSE c

\* strings.ToLower
ToLower(s) == [i \in 1..Len(s) |-> Lower(s[i])]

\* strings.TrimSuffix(s, "."): removes at most one trailing dot
TrimSuffixDot(s) ==
    IF Len(s) > 0 /\ s[Len(s)] = "." THEN SubSeq(s, 1, Len(s) - 1) ELSE s

\* the key handleDNSRequest looks up for a question name
LookupKey(name) == ToLower(TrimSuffixDot(name))

\* dns.IsDomainName restricted to unescaped names: no empty label
IsDomainName(s) ==
    /\ Len(s) > 0
    /\ \/ s = <<".">>
       \/ /\ s[1] # "."
          /\ \A i \in 1..(Len(s) - 1) : ~(s[i] = "." /\ s[i + 1] = ".")

\* dns.Fqdn under the zone parser's origin "."
Fqdn(s) == IF Len(s) > 0 /\ s[Len(s)] = "." THEN s ELSE s \o <<".">>

\* net.ParseIP on a token without ':' : four numbers, each 0..255
IsIPv4(ip) == Len(ip) = 4 /\ \A i \in 1..Len(ip) : ip[i] \in 0..255

\* ---------------------------------------------------------------- messages
NoRRs == <<>>

\* dns.NewRR(fmt.Sprintf("%s A %s", name, ip)): <<rr>> on success, <<>> on error
NewRR(name, ip) ==
    IF IsDomainName(name) /\ IsIPv4(ip)
    THEN << [Name |-> Fqdn(name), Rrtype |-> TypeA, Ttl |-> DefaultTtl, A |-> ip] >>
    ELSE <<>>

SetReplyNotAuthoritative(r) ==
    [Id |-> r.Id, Response |-> TRUE, Authoritative |-> FALSE,
     Rcode |-> RcodeSuccess,
     Question |-> IF Len(r.Question) > 0 THEN <<r.Question[1]>> ELSE <<>>,
     Answer |-> NoRRs, Ns |-> NoRRs, Extra |-> NoRRs]

\* msg := new(dns.Msg); msg.SetReply(r); msg.Authoritative = true
SetReply(r) ==
    [Id |-> r.Id, Response |-> TRUE, Authoritative |-> TRUE,
     Rcode |-> RcodeSuccess,
     Question |-> IF Len(r.Question) > 0 THEN <<r.Question[1]>> ELSE <<>>,
     Answer |-> NoRRs, Ns |-> NoRRs, Extra |-> NoRRs]

\* ------------------------------------------------------------------ inputs
QNames == { <<"a", ".">>, <<"A">>, <<"b", ".">> }
QTypes == {TypeA, TypeMX}
Questions == [Name : QNames, Qtype : QTypes]
MsgIds == {7}
Nets == {"udp", "tcp"}

SeqsUpTo(S, n) == UNION { [1..k -> S] : k \in 0..n }

\* every incoming message with 1..MaxQuestions questions
Msgs == [Id : MsgIds, Question : SeqsUpTo(Questions, MaxQuestions)]

\* the message served while reloads go on: one A question for a.
LiveMsgs == [Id : MsgIds, Question : {<< [Name |-> <<"a", ".">>, Qtype |-> TypeA] >>}]

Keys == { <<"a">>, <<"a", ".">>, <<"A">> }
IPs == { <<10, 0, 0, 1>>, <<10, 0, 0, 256>> }
\* the record maps with no entry or one
RecordMaps == {<<>>} \cup { [k \in {key} |-> ip] : key \in Keys, ip \in IPs }

\* what c.Exchange may return for a relayed message: a message with the Id of
\* the request (the client accepts no other) whose flags and content are the
\* upstream's own; the response and authoritative flags are not checked
UpstreamRR(r, t, n) == [Name |-> Fqdn(r.Question[1].Name), Rrtype |-> t,
                        Ttl |-> 60, A |-> <<192, 0, 2, n>>]
UpstreamMsgs(r) ==
    { [Id |-> r.Id, Response |-> qr, Authoritative |-> aa,
       Rcode |-> RcodeSuccess, Question |-> r.Question,
       Answer |-> <<UpstreamRR(r, r.Question[1].Qtype, 1)>>,
       Ns |-> NoRRs, Extra |-> <<UpstreamRR(r, TypeA, 2)>>]
        : qr \in BOOLEAN, aa \in BOOLEAN }
    \cup
    { [Id |-> r.Id, Response |-> qr, Authoritative |-> aa,
       Rcode |-> RcodeNameError, Question |-> r.Question,
       Answer |-> NoRRs, Ns |-> <<UpstreamRR(r, 6, 3)>>, Extra |-> NoRRs]
        : qr \in BOOLEAN, aa \in BOOLEAN }

\* ----------------------------------------------------------- configuration
Absent == <<>>
Opt(field, zero) == IF field = Absent THEN zero ELSE field[1]

NoServerDoc == [enabled |-> Absent, port |-> Absent, interface |-> Absent]

\* documents whose server section is absent: every record map, every fallback
RecordDocs == [records : RecordMaps, fallback_dns : {Absent, <<"10.0.0.53">>},
               udp : {NoServerDoc}, tcp : {NoServerDoc}]

\* documents the process may be started with: the enabled flags both absent
\* or both written out, and one document that sets the ports
BootRecords == [k \in {<<"a">>} |-> <<10, 0, 0, 1>>]
EnabledDoc(e) == [enabled |-> e, port |-> Absent, interface |-> Absent]
BootDocs ==
    [records : {BootRecords}, fallback_dns : {<<"10.0.0.53">>},
     udp : {NoServerDoc}, tcp : {NoServerDoc}]
    \cup
    [records : {BootRecords}, fallback_dns : {<<"10.0.0.53">>},
     udp : {EnabledDoc(<<TRUE>>), EnabledDoc(<<FALSE>>)},
     tcp : {EnabledDoc(<<TRUE>>), EnabledDoc(<<FALSE>>)}]
    \cup
    [records : {BootRecords}, fallback_dns : {<<"10.0.0.53">>},
     udp : {[enabled |-> <<TRUE>>, port |-> <<5353>>, interface |-> Absent]},
     tcp : {[enabled |-> <<TRUE>>, port |-> <<0>>, interface |-> Absent]}]

\* documents the operator may write while the process runs: the records and
\* the fallback kept or dropped, and one document that changes the server section
LiveDocs ==
    [records : {<<>>, BootRecords}, fallback_dns : {Absent, <<"10.0.0.53">>},
     udp : {NoServerDoc}, tcp : {NoServerDoc}]
EditDocs ==
    LiveDocs
    \cup
    [records : {BootRecords}, fallback_dns : {<<"10.0.0.53">>},
     udp : {[enabled |-> <<FALSE>>, port |-> <<5353>>, interface |-> Absent]},
     tcp : {[enabled |-> <<TRUE>>, port |-> <<0>>, interface |-> Absent]}]

\* what configFile may hold: a document, bytes that do not parse, or nothing readable
NoDoc == [records |-> <<>>, fallback_dns |-> Absent, udp |-> NoServerDoc, tcp |-> NoServerDoc]
Unreadable == [state |-> "unreadable", doc |-> NoDoc]
Unparsable == [state |-> "unparsable", doc |-> NoDoc]
BadFiles == {Unreadable, Unparsable}
FileOf(d) == [state |-> "ok", doc |-> d]

\* yaml.Unmarshal into a zero Config: absent fields keep Go's zero values
UnmarshalServer(s) ==
    [Enabled |-> Opt(s.enabled, FALSE), Port |-> Opt(s.port, 0),
     Interface |-> Opt(s.interface, "")]
Unmarshal(doc) ==
    [Records |-> doc.records,
     FallbackDNS |-> Opt(doc.fallback_dns, ""),
     Server |-> [UDP |-> UnmarshalServer(doc.udp), TCP |-> UnmarshalServer(doc.tcp)]]

ZeroConfig ==
    [Records |-> <<>>, FallbackDNS |-> "",
     Server |-> [UDP |-> [Enabled |-> FALSE, Port |-> 0, Interface |-> ""],
                 TCP |-> [Enabled |-> FALSE, Port |-> 0, Interface |-> ""]]]

\* os.ReadFile + yaml.Unmarshal of loadConfig: <<newConfig>>, or <<>> on error
ReadConfig(f) == IF f.state = "ok" THEN <<Unmarshal(f.doc)>> ELSE <<>>

\* loadConfig's port defaults
DefaultPortOf(p) == IF p <= 0 THEN DefaultPort ELSE p
PortDefaults(c) ==
    [c EXCEPT !.Server.UDP.Port = DefaultPortOf(@),
              !.Server.TCP.Port = DefaultPortOf(@)]

\* main's defaults after the initial load
MainDefaults(c) ==
    LET d == PortDefaults(c)
    IN IF ~d.Server.UDP.Enabled /\ ~d.Server.TCP.Enabled
       THEN [d EXCEPT !.Server.UDP.Enabled = TRUE, !.Server.TCP.Enabled = TRUE]
       ELSE d

MapGetMisses(records, key) == <<>>

\* config.Records[key]: <<ip>> when the key exists, <<>> otherwise
MapGet(records, key) ==
    IF key \in DOMAIN records THEN <<records[key]>> ELSE <<>>

\* ------------------------------------------------------------------- state
Handlers == {1, 2}

VARIABLES
    file,       \* content of configFile on disk
    events,     \* watcher.Events: kinds of the pending notifications
    edits,      \* file operations so far
    config,     \* the global config
    lock,       \* configLock: readers holding it, writer holding it, writer pending
    main,       \* main goroutine: pc, servers count, and the settings it read
                \* into its locals for each transport
    watcher,    \* watchConfig goroutine: pc, loadConfig's newConfig, and how many
                \* reloads it logged as failed and as loaded
    listeners,  \* per transport: state and bound address
    process,    \* "running", or the fatal exit taken
    hs,         \* per handler goroutine: handleDNSRequest's locals, the exchanges
                \* it made (sent), its WriteMsg calls (wrote) and the branch each
                \* question took (trace)
    boot        \* the file content the initial loadConfig read

vars == <<file, events, edits, config, lock, main, watcher, listeners, process, hs, boot>>

NoMsg == [Id |-> 0, Question |-> <<>>]

IdleHandler ==
    [pc |-> "idle", r |-> NoMsg, net |-> "", qi |-> 0, msg |-> SetReply(NoMsg),
     fallbackDNS |-> "", found |-> <<>>, sent |-> <<>>, wrote |-> <<>>,
     trace |-> <<>>]

FreeLock == [readers |-> {}, writer |-> FALSE, pending |-> FALSE]

\* main as a holder of the read lock, beside the handlers
MainReader == 0

\* main's locals before it has read them
NoSettings == [Enabled |-> FALSE, Port |-> 0, Interface |-> ""]

Running == process = "running"

CanRLockDespiteWriter == TRUE

\* RLock: blocked while a writer holds the lock or waits for it
CanRLock == ~lock.writer /\ ~lock.pending

\* ------------------------------------------------------- handleDNSRequest
\* the loop's step to the next question, or to WriteMsg after the last one
NextQuestion(h, branch) ==
    IF h.qi < Len(h.r.Question)
    THEN [h EXCEPT !.pc = "fallback", !.qi = @ + 1, !.found = <<>>,
                   !.trace = Append(@, branch)]
    ELSE [h EXCEPT !.pc = "write", !.found = <<>>, !.trace = Append(@, branch)]

\* the listener of transport net hands message r to a handler goroutine
Serve(h, r, net) ==
    /\ Running
    /\ hs[h].pc = "idle"
    /\ listeners[net].state = "serving"
    /\ hs' = [hs EXCEPT ![h] =
                [IdleHandler EXCEPT
                    !.pc = IF Len(r.Question) = 0 THEN "write" ELSE "fallback",
                    !.r = r, !.net = net,
                    !.qi = IF Len(r.Question) = 0 THEN 0 ELSE 1,
                    !.msg = SetReply(r)]]
    /\ UNCHANGED <<file, events, edits, config, lock, main, watcher, listeners, process, boot>>

\* configLock.RLock(); fallbackDNS := config.FallbackDNS
ReadFallback(h) ==
    /\ Running
    /\ hs[h].pc = "fallback"
    /\ CanRLock
    /\ lock' = [lock EXCEPT !.readers = @ \cup {h}]
    /\ hs' = [hs EXCEPT ![h].pc = "fallbackUnlock",
                        ![h].fallbackDNS = config.FallbackDNS]
    /\ UNCHANGED <<file, events, edits, config, main, watcher, listeners, process, boot>>

LocalTypeAny(qtype) == TRUE

\* if q.Qtype == dns.TypeA: the only type looked up in config.Records
LocalType(qtype) == qtype = TypeA

\* configLock.RUnlock(); if q.Qtype == dns.TypeA
UnlockFallback(h) ==
    /\ Running
    /\ hs[h].pc = "fallbackUnlock"
    /\ lock' = [lock EXCEPT !.readers = @ \ {h}]
    /\ hs' = [hs EXCEPT ![h].pc =
                IF LocalType(hs[h].r.Question[hs[h].qi].Qtype) THEN "records" ELSE "relay"]
    /\ UNCHANGED <<file, events, edits, config, main, watcher, listeners, process, boot>>

\* configLock.RLock(); ip, exists := config.Records[...]
ReadRecords(h) ==
    /\ Running
    /\ hs[h].pc = "records"
    /\ CanRLock
    /\ lock' = [lock EXCEPT !.readers = @ \cup {h}]
    /\ hs' = [hs EXCEPT ![h].pc = "recordsUnlock",
                        ![h].found = MapGet(config.Records,
                                            LookupKey(hs[h].r.Question[hs[h].qi].Name))]
    /\ UNCHANGED <<file, events, edits, config, main, watcher, listeners, process, boot>>

LocalAnswerResetsCode(msg, name, ip) ==
    IF NewRR(name, ip) # <<>>
    THEN [msg EXCEPT !.Answer = @ \o NewRR(name, ip), !.Rcode = RcodeSuccess]
    ELSE [msg EXCEPT !.Rcode = RcodeServerFailure]

\* the reply after a local hit: the record appended, or SERVFAIL when NewRR fails
LocalAnswer(msg, name, ip) ==
    IF NewRR(name, ip) # <<>>
    THEN [msg EXCEPT !.Answer = @ \o NewRR(name, ip)]
    ELSE [msg EXCEPT !.Rcode = RcodeServerFailure]

UnlockRecordsHolds(h) ==
    /\ Running
    /\ hs[h].pc = "recordsUnlock"
    /\ hs' = [hs EXCEPT ![h] =
                IF hs[h].found # <<>>
                THEN NextQuestion([hs[h] EXCEPT !.msg =
                        LocalAnswer(@, hs[h].r.Question[hs[h].qi].Name, hs[h].found[1])],
                        IF NewRR(hs[h].r.Question[hs[h].qi].Name, hs[h].found[1]) # <<>>
                        THEN "local" ELSE "localfail")
                ELSE [hs[h] EXCEPT !.pc = "relay"]]
    /\ UNCHANGED <<file, events, edits, config, lock, main, watcher, listeners, process, boot>>

\* configLock.RUnlock(); if exists { ... continue }
UnlockRecords(h) ==
    /\ Running
    /\ hs[h].pc = "recordsUnlock"
    /\ lock' = [lock EXCEPT !.readers = @ \ {h}]
    /\ hs' = [hs EXCEPT ![h] =
                IF hs[h].found # <<>>
                THEN NextQuestion([hs[h] EXCEPT !.msg =
                        LocalAnswer(@, hs[h].r.Question[hs[h].qi].Name, hs[h].found[1])],
                        IF NewRR(hs[h].r.Question[hs[h].qi].Name, hs[h].found[1]) # <<>>
                        THEN "local" ELSE "localfail")
                ELSE [hs[h] EXCEPT !.pc = "relay"]]
    /\ UNCHANGED <<file, events, edits, config, main, watcher, listeners, process, boot>>

ExchangeOverUDP(h) ==
    [qi |-> h.qi, m |-> h.r, addr |-> h.fallbackDNS \o ":53", net |-> "udp",
     done |-> FALSE, resp |-> <<>>]

\* the exchange handleDNSRequest starts: c.Net, the message, the address
Exchange(h) ==
    [qi |-> h.qi, m |-> h.r, addr |-> h.fallbackDNS \o ":53", net |-> h.net,
     done |-> FALSE, resp |-> <<>>]

NoFallbackServFail(msg) == [msg EXCEPT !.Rcode = RcodeServerFailure]

\* msg.Rcode = dns.RcodeNameError
NoFallback(msg) == [msg EXCEPT !.Rcode = RcodeNameError]

\* if fallbackDNS == "" { NXDOMAIN } else { c.Exchange(r, fallbackDNS+":53") }
Relay(h) ==
    /\ Running
    /\ hs[h].pc = "relay"
    /\ hs' = [hs EXCEPT ![h] =
                IF hs[h].fallbackDNS = ""
                THEN NextQuestion([hs[h] EXCEPT !.msg = NoFallback(@)], "nxdomain")
                ELSE [hs[h] EXCEPT !.pc = "exchange",
                                   !.sent = Append(@, Exchange(hs[h]))]]
    /\ UNCHANGED <<file, events, edits, config, lock, main, watcher, listeners, process, boot>>

AfterExchangeAnswersOnly(msg, resp) ==
    IF resp # <<>>
    THEN [msg EXCEPT !.Rcode = resp[1].Rcode, !.Answer = resp[1].Answer]
    ELSE [msg EXCEPT !.Rcode = RcodeServerFailure]

AfterExchangeErrorDropped(msg, resp) ==
    IF resp # <<>> THEN resp[1] ELSE msg

AfterExchangeMerges(msg, resp) ==
    IF resp # <<>>
    THEN [resp[1] EXCEPT !.Answer = msg.Answer \o @]
    ELSE [msg EXCEPT !.Rcode = RcodeServerFailure]

\* the reply after an exchange: in on success, SERVFAIL on error
AfterExchange(msg, resp) ==
    IF resp # <<>> THEN resp[1] ELSE [msg EXCEPT !.Rcode = RcodeServerFailure]

\* c.Exchange returns: resp is <<in>>, or <<>> for an error
ExchangeReturns(h, resp) ==
    /\ Running
    /\ hs[h].pc = "exchange"
    /\ hs' = [hs EXCEPT ![h] =
                NextQuestion([hs[h] EXCEPT
                    !.msg = AfterExchange(@, resp),
                    !.sent[Len(hs[h].sent)].done = TRUE,
                    !.sent[Len(hs[h].sent)].resp = resp],
                    IF resp # <<>> THEN "relayed" ELSE "relayfail")]
    /\ UNCHANGED <<file, events, edits, config, lock, main, watcher, listeners, process, boot>>

ExchangeOk(h) ==
    /\ hs[h].pc = "exchange"
    /\ \E in \in UpstreamMsgs(hs[h].r) : ExchangeReturns(h, <<in>>)

ExchangeErr(h) == ExchangeReturns(h, <<>>)

WriteMsgRetries(h, ok) ==
    /\ Running
    /\ hs[h].pc = "write"
    /\ hs' = [hs EXCEPT ![h].pc = IF ok \/ Len(hs[h].wrote) > 0 THEN "done" ELSE "write",
                        ![h].wrote = Append(@, [msg |-> hs[h].msg, ok |-> ok])]
    /\ UNCHANGED <<file, events, edits, config, lock, main, watcher, listeners, process, boot>>

WriteMsgOrDie(h, ok) ==
    /\ Running
    /\ hs[h].pc = "write"
    /\ hs' = [hs EXCEPT ![h].pc = "done",
                        ![h].wrote = Append(@, [msg |-> hs[h].msg, ok |-> ok])]
    /\ process' = IF ok THEN process ELSE "fatal: server error"
    /\ UNCHANGED <<file, events, edits, config, lock, main, watcher, listeners, boot>>

\* err := w.WriteMsg(msg); a failure is logged only
WriteMsg(h, ok) ==
    /\ Running
    /\ hs[h].pc = "write"
    /\ hs' = [hs EXCEPT ![h].pc = "done",
                        ![h].wrote = Append(@, [msg |-> hs[h].msg, ok |-> ok])]
    /\ UNCHANGED <<file, events, edits, config, lock, main, watcher, listeners, process, boot>>

\* handleDNSRequest returns; its goroutine ends
Return(h) ==
    /\ Running
    /\ hs[h].pc = "done"
    /\ hs' = [hs EXCEPT ![h] = IdleHandler]
    /\ UNCHANGED <<file, events, edits, config, lock, main, watcher, listeners, process, boot>>

Handle(h) ==
    \/ ReadFallback(h)
    \/ UnlockFallback(h)
    \/ ReadRecords(h)
    \/ UnlockRecords(h)
    \/ Relay(h)
    \/ ExchangeOk(h)
    \/ ExchangeErr(h)
    \/ \E ok \in BOOLEAN : WriteMsg(h, ok)
    \/ Return(h)

\* -------------------------------------------- request handling on its own
\* the state once main has started both listeners from document d and the
\* watcher is set up, after e file operations
Started(d, e) ==
    /\ file = FileOf(d)
    /\ boot = FileOf(d)
    /\ events = <<>>
    /\ edits = e
    /\ config = MainDefaults(PortDefaults(Unmarshal(d)))
    /\ lock = FreeLock
    /\ main = [pc |-> "wait", servers |-> 2,
               udp |-> MainDefaults(PortDefaults(Unmarshal(d))).Server.UDP,
               tcp |-> MainDefaults(PortDefaults(Unmarshal(d))).Server.TCP]
    /\ watcher = [pc |-> "watching", mode |-> "file", newConfig |-> ZeroConfig,
                  failed |-> 0, loaded |-> 0]
    /\ listeners = [n \in Nets |->
                      [state |-> "serving", Port |-> DefaultPort, Interface |-> ""]]
    /\ process = "running"
    /\ hs = [h \in Handlers |-> IdleHandler]

InitHandle == \E d \in RecordDocs : Started(d, MaxEdits)

ServeAny == hs[1].pc = "idle" /\ \E r \in Msgs, net \in Nets : Serve(1, r, net)

NextHandle == ServeAny \/ Handle(1)

SpecHandle == InitHandle /\ [][NextHandle]_vars

\* -------------------------------------------------------------------- main
Fatal(why) == process' = why

\* main: if err := loadConfig(); err != nil { log.Fatalf }
MainLoad ==
    /\ Running
    /\ main.pc = "load"
    /\ IF ReadConfig(file) = <<>>
       THEN /\ Fatal("fatal: initial config")
            /\ UNCHANGED <<config, main>>
       ELSE /\ config' = PortDefaults(ReadConfig(file)[1])
            /\ main' = [main EXCEPT !.pc = "defaults"]
            /\ UNCHANGED process
    /\ UNCHANGED <<file, events, edits, lock, watcher, listeners, hs, boot>>

\* main: the defaults applied under configLock.Lock()
MainApplyDefaults ==
    /\ Running
    /\ main.pc = "defaults"
    /\ config' = MainDefaults(config)
    /\ main' = [main EXCEPT !.pc = "watch"]
    /\ UNCHANGED <<file, events, edits, lock, watcher, listeners, process, hs, boot>>

\* main: go watchConfig(); dns.HandleFunc(".", handleDNSRequest)
MainGoWatch ==
    /\ Running
    /\ main.pc = "watch"
    /\ watcher' = [watcher EXCEPT !.pc = "setup"]
    /\ main' = [main EXCEPT !.pc = "udp"]
    /\ UNCHANGED <<file, events, edits, config, lock, listeners, process, hs, boot>>

\* the listener main starts for a transport from what it read under RLock
StartedListener(sc) ==
    IF sc.Enabled
    THEN [state |-> "started", Port |-> sc.Port, Interface |-> sc.Interface]
    ELSE [state |-> "off", Port |-> 0, Interface |-> ""]

\* main: configLock.RLock(); enabled, port, interface := config.Server.<net>
MainRead(net, sc, pc, next) ==
    /\ Running
    /\ main.pc = pc
    /\ CanRLock
    /\ lock' = [lock EXCEPT !.readers = @ \cup {MainReader}]
    /\ main' = [main EXCEPT !.pc = next, ![net] = sc]
    /\ UNCHANGED <<file, events, edits, config, watcher, listeners, process, hs, boot>>

MainReadUDP == MainRead("udp", config.Server.UDP, "udp", "udpUnlock")

MainReadTCP == MainRead("tcp", config.Server.TCP, "tcp", "tcpUnlock")

\* main: configLock.RUnlock()
MainUnlock(pc, next) ==
    /\ Running
    /\ main.pc = pc
    /\ lock' = [lock EXCEPT !.readers = @ \ {MainReader}]
    /\ main' = [main EXCEPT !.pc = next]
    /\ UNCHANGED <<file, events, edits, config, watcher, listeners, process, hs, boot>>

MainUnlockUDP == MainUnlock("udpUnlock", "udpStart")

MainUnlockTCP == MainUnlock("tcpUnlock", "tcpStart")

\* main: if enabled { servers++; go func } on the locals it read
MainStart(net, sc, pc, next) ==
    /\ Running
    /\ main.pc = pc
    /\ listeners' = [listeners EXCEPT ![net] = StartedListener(sc)]
    /\ main' = [main EXCEPT !.pc = next,
                            !.servers = IF sc.Enabled THEN @ + 1 ELSE @]
    /\ UNCHANGED <<file, events, edits, config, lock, watcher, process, hs, boot>>

MainStartUDP == MainStart("udp", main.udp, "udpStart", "tcp")

MainStartTCP == MainStart("tcp", main.tcp, "tcpStart", "check")

\* main: if servers == 0 { log.Fatalf }
MainCheckServers ==
    /\ Running
    /\ main.pc = "check"
    /\ IF main.servers = 0
       THEN Fatal("fatal: no servers") /\ UNCHANGED main
       ELSE main' = [main EXCEPT !.pc = "wait"] /\ UNCHANGED process
    /\ UNCHANGED <<file, events, edits, config, lock, watcher, listeners, hs, boot>>

MainServerErrorFromUDP ==
    /\ Running
    /\ main.pc = "wait"
    /\ listeners["udp"].state = "stopped"
    /\ Fatal("fatal: server error")
    /\ UNCHANGED <<file, events, edits, config, lock, main, watcher, listeners, hs, boot>>

\* main: err := <-errChan; log.Fatalf: a stopped listener's send is received
MainServerError ==
    /\ Running
    /\ main.pc = "wait"
    /\ \E n \in Nets : listeners[n].state = "stopped"
    /\ Fatal("fatal: server error")
    /\ UNCHANGED <<file, events, edits, config, lock, main, watcher, listeners, hs, boot>>

\* --------------------------------------------------------------- listeners
\* ListenAndServe binds and serves, or returns a bind error
Listen(n, ok) ==
    /\ Running
    /\ listeners[n].state = "started"
    /\ listeners' = [listeners EXCEPT ![n].state = IF ok THEN "serving" ELSE "stopped"]
    /\ UNCHANGED <<file, events, edits, config, lock, main, watcher, process, hs, boot>>

\* ListenAndServe returns while serving
ListenerStops(n) ==
    /\ Running
    /\ listeners[n].state = "serving"
    /\ listeners' = [listeners EXCEPT ![n].state = "stopped"]
    /\ UNCHANGED <<file, events, edits, config, lock, main, watcher, process, hs, boot>>

\* ------------------------------------------------------------- watchConfig
ReloadKinds == {"write", "create"}
OtherKinds == {"remove", "rename", "chmod"}

WatchSetupFileOnly(newWatcher, addFile, addDir) ==
    /\ Running
    /\ watcher.pc = "setup"
    /\ IF newWatcher /\ addFile
       THEN watcher' = [watcher EXCEPT !.pc = "watching", !.mode = "file"]
            /\ UNCHANGED process
       ELSE Fatal("fatal: watcher") /\ UNCHANGED watcher
    /\ UNCHANGED <<file, events, edits, config, lock, main, listeners, hs, boot>>

\* fsnotify.NewWatcher, watcher.Add(configFile), watcher.Add(configDir)
WatchSetup(newWatcher, addFile, addDir) ==
    /\ Running
    /\ watcher.pc = "setup"
    /\ IF ~newWatcher
       THEN Fatal("fatal: watcher") /\ UNCHANGED watcher
       ELSE IF addFile
       THEN watcher' = [watcher EXCEPT !.pc = "watching", !.mode = "file"]
            /\ UNCHANGED process
       ELSE IF addDir
       THEN watcher' = [watcher EXCEPT !.pc = "watching", !.mode = "dir"]
            /\ UNCHANGED process
       ELSE Fatal("fatal: watcher") /\ UNCHANGED watcher
    /\ UNCHANGED <<file, events, edits, config, lock, main, listeners, hs, boot>>

\* case event := <-watcher.Events / case err := <-watcher.Errors
WatchEvent ==
    /\ Running
    /\ watcher.pc = "watching"
    /\ events # <<>>
    /\ events' = Tail(events)
    /\ watcher' = [watcher EXCEPT !.pc =
                     IF Head(events) \in ReloadKinds THEN "load" ELSE "watching"]
    /\ UNCHANGED <<file, edits, config, lock, main, listeners, process, hs, boot>>

\* the watcher's channels are closed: watchConfig returns
WatchClosed ==
    /\ Running
    /\ watcher.pc = "watching"
    /\ watcher' = [watcher EXCEPT !.pc = "returned"]
    /\ UNCHANGED <<file, events, edits, config, lock, main, listeners, process, hs, boot>>

WatchReadClobbers ==
    /\ Running
    /\ watcher.pc = "load"
    /\ watcher' = IF ReadConfig(file) = <<>>
                  THEN [watcher EXCEPT !.pc = "watching", !.failed = @ + 1]
                  ELSE [watcher EXCEPT !.pc = "lock", !.newConfig = ReadConfig(file)[1]]
    /\ config' = IF ReadConfig(file) = <<>> THEN ZeroConfig ELSE config
    /\ UNCHANGED <<file, events, edits, lock, main, listeners, process, hs, boot>>

\* loadConfig: os.ReadFile, yaml.Unmarshal; an error is returned and logged
WatchRead ==
    /\ Running
    /\ watcher.pc = "load"
    /\ watcher' = IF ReadConfig(file) = <<>>
                  THEN [watcher EXCEPT !.pc = "watching", !.failed = @ + 1]
                  ELSE [watcher EXCEPT !.pc = "lock", !.newConfig = ReadConfig(file)[1]]
    /\ UNCHANGED <<file, events, edits, config, lock, main, listeners, process, hs, boot>>

\* loadConfig: configLock.Lock() announces the writer, which stops new readers
WatchLockRequest ==
    /\ Running
    /\ watcher.pc = "lock"
    /\ lock' = [lock EXCEPT !.pending = TRUE]
    /\ watcher' = [watcher EXCEPT !.pc = "locking"]
    /\ UNCHANGED <<file, events, edits, config, main, listeners, process, hs, boot>>

\* loadConfig: configLock.Lock() returns once no reader holds the lock
WatchLock ==
    /\ Running
    /\ watcher.pc = "locking"
    /\ lock.readers = {}
    /\ lock' = [lock EXCEPT !.pending = FALSE, !.writer = TRUE]
    /\ watcher' = [watcher EXCEPT !.pc = "assign"]
    /\ UNCHANGED <<file, events, edits, config, main, listeners, process, hs, boot>>

WatchAssignKeepsRecords ==
    /\ Running
    /\ watcher.pc = "assign"
    /\ config' = [watcher.newConfig EXCEPT !.Records = config.Records]
    /\ watcher' = [watcher EXCEPT !.pc = "ports"]
    /\ UNCHANGED <<file, events, edits, lock, main, listeners, process, hs, boot>>

\* loadConfig: config = newConfig
WatchAssign ==
    /\ Running
    /\ watcher.pc = "assign"
    /\ config' = watcher.newConfig
    /\ watcher' = [watcher EXCEPT !.pc = "ports"]
    /\ UNCHANGED <<file, events, edits, lock, main, listeners, process, hs, boot>>

WatchPortsRebinds ==
    /\ Running
    /\ watcher.pc = "ports"
    /\ config' = PortDefaults(config)
    /\ watcher' = [watcher EXCEPT !.pc = "unlock"]
    /\ listeners' = [listeners EXCEPT
                        !["udp"].Port = PortDefaults(config).Server.UDP.Port,
                        !["tcp"].Port = PortDefaults(config).Server.TCP.Port]
    /\ UNCHANGED <<file, events, edits, lock, main, process, hs, boot>>

\* loadConfig: the port defaults
WatchPorts ==
    /\ Running
    /\ watcher.pc = "ports"
    /\ config' = PortDefaults(config)
    /\ watcher' = [watcher EXCEPT !.pc = "unlock"]
    /\ UNCHANGED <<file, events, edits, lock, main, listeners, process, hs, boot>>

\* loadConfig: the deferred configLock.Unlock(); return nil
WatchUnlock ==
    /\ Running
    /\ watcher.pc = "unlock"
    /\ lock' = [lock EXCEPT !.writer = FALSE]
    /\ watcher' = [watcher EXCEPT !.pc = "watching", !.newConfig = ZeroConfig,
                                   !.loaded = @ + 1]
    /\ UNCHANGED <<file, events, edits, config, main, listeners, process, hs, boot>>

\* ------------------------------------------------------------- environment
EditFiles == { FileOf(d) : d \in EditDocs } \cup BadFiles

Watching == watcher.pc \notin {"off", "setup", "returned"}

Notify(kind) == events' = IF Watching THEN Append(events, kind) ELSE events

\* the operator writes or creates the configuration file
FileWritten(kind, f) ==
    /\ Running
    /\ main.pc # "load"
    /\ edits < MaxEdits
    /\ edits' = edits + 1
    /\ file' = f
    /\ Notify(kind)
    /\ UNCHANGED <<config, lock, main, watcher, listeners, process, hs, boot>>

\* the file is removed, renamed away or has its mode changed
FileTouched(kind) ==
    /\ Running
    /\ main.pc # "load"
    /\ edits < MaxEdits
    /\ edits' = edits + 1
    /\ file' = IF kind = "chmod" THEN file ELSE Unreadable
    /\ Notify(kind)
    /\ UNCHANGED <<config, lock, main, watcher, listeners, process, hs, boot>>

\* the notification backend reports an error on watcher.Errors
WatchError ==
    /\ Running
    /\ Watching
    /\ edits < MaxEdits
    /\ edits' = edits + 1
    /\ events' = Append(events, "error")
    /\ UNCHANGED <<file, config, lock, main, watcher, listeners, process, hs, boot>>

\* ------------------------------------------------------- the whole process
BootFiles == { FileOf(d) : d \in BootDocs } \cup BadFiles

Init ==
    /\ file \in BootFiles
    /\ boot = file
    /\ events = <<>>
    /\ edits = 0
    /\ config = ZeroConfig
    /\ lock = FreeLock
    /\ main = [pc |-> "load", servers |-> 0, udp |-> NoSettings, tcp |-> NoSettings]
    /\ watcher = [pc |-> "off", mode |-> "", newConfig |-> ZeroConfig,
                  failed |-> 0, loaded |-> 0]
    /\ listeners = [n \in Nets |-> [state |-> "off", Port |-> 0, Interface |-> ""]]
    /\ process = "running"
    /\ hs = [h \in Handlers |-> IdleHandler]

Next ==
    \/ MainLoad
    \/ MainApplyDefaults
    \/ MainGoWatch
    \/ MainReadUDP
    \/ MainUnlockUDP
    \/ MainStartUDP
    \/ MainReadTCP
    \/ MainUnlockTCP
    \/ MainStartTCP
    \/ MainCheckServers
    \/ MainServerError
    \/ \E n \in Nets, ok \in BOOLEAN : Listen(n, ok)
    \/ \E n \in Nets : ListenerStops(n)
    \/ \E nw \in BOOLEAN, af \in BOOLEAN, ad \in BOOLEAN : WatchSetup(nw, af, ad)
    \/ WatchEvent
    \/ WatchClosed
    \/ WatchRead
    \/ WatchLockRequest
    \/ WatchLock
    \/ WatchAssign
    \/ WatchPorts
    \/ WatchUnlock
    \/ \E k \in ReloadKinds, f \in EditFiles : FileWritten(k, f)
    \/ \E k \in OtherKinds : FileTouched(k)
    \/ WatchError

Spec == Init /\ [][Next]_vars

\* the whole process under scheduling: the main goroutine gets to run whenever
\* it can take a step, and so does loadConfig between Lock() and Unlock()
MainStep ==
    \/ MainLoad
    \/ MainApplyDefaults
    \/ MainGoWatch
    \/ MainReadUDP
    \/ MainUnlockUDP
    \/ MainStartUDP
    \/ MainReadTCP
    \/ MainUnlockTCP
    \/ MainStartTCP
    \/ MainCheckServers
    \/ MainServerError

LoadConfigLocked ==
    \/ WatchLockRequest
    \/ WatchLock
    \/ WatchAssign
    \/ WatchPorts
    \/ WatchUnlock

FairSpec == Spec /\ WF_vars(MainStep) /\ WF_vars(LoadConfigLocked)

\* ------------------------------------- requests served while reloads go on
InitLive == \E d \in LiveDocs : Started(d, 0)

NextLive ==
    \/ WatchEvent
    \/ WatchRead
    \/ WatchLockRequest
    \/ WatchLock
    \/ WatchAssign
    \/ WatchPorts
    \/ WatchUnlock
    \/ \E k \in ReloadKinds, f \in EditFiles : FileWritten(k, f)
    \/ \E k \in OtherKinds : FileTouched(k)
    \/ WatchError
    \/ \E h \in Handlers, r \in LiveMsgs, net \in Nets : Serve(h, r, net)
    \/ \E h \in Handlers : Handle(h)

SpecLive == InitLive /\ [][NextLive]_vars

\* ------------------ reloads that arrive while relayed requests are in flight
\* started with no records and a fallback, so that every request is relayed
\* until a reload says otherwise; the operator rewrites the file
RelayDoc ==
    [records |-> <<>>, fallback_dns |-> <<"10.0.0.53">>,
     udp |-> NoServerDoc, tcp |-> NoServerDoc]

InitRelay == Started(RelayDoc, 0)

NextRelay ==
    \/ WatchEvent
    \/ WatchRead
    \/ WatchLockRequest
    \/ WatchLock
    \/ WatchAssign
    \/ WatchPorts
    \/ WatchUnlock
    \/ \E d \in LiveDocs : FileWritten("write", FileOf(d))
    \/ \E h \in Handlers, r \in LiveMsgs, net \in Nets : Serve(h, r, net)
    \/ \E h \in Handlers : Handle(h)

SpecRelay == InitRelay /\ [][NextRelay]_vars

\* scheduling: loadConfig gets to run between Lock() and Unlock(), and a handler
\* that holds the read lock gets to release it; nothing is assumed of how long
\* an exchange or a reply write takes
ReadUnlock == \E h \in Handlers : UnlockFallback(h) \/ UnlockRecords(h)

FairRelay == SpecRelay /\ WF_vars(LoadConfigLocked) /\ WF_vars(ReadUnlock)

\* --- the whole process with requests, started from a document with records
\* and fallback_dns and no server section
PlainDoc ==
    [records |-> BootRecords, fallback_dns |-> <<"10.0.0.53">>,
     udp |-> NoServerDoc, tcp |-> NoServerDoc]

InitWhole == Init /\ file \in {FileOf(PlainDoc)} \cup BadFiles

NextRequest == (\E r \in LiveMsgs, net \in Nets : Serve(1, r, net)) \/ Handle(1)

SpecWhole == InitWhole /\ [][Next \/ NextRequest]_vars

\* ================================================================== claims
\* the message handler 1 passed to WriteMsg
Reply == hs[1].wrote[1].msg
Replied == hs[1].pc = "done"
SingleQuestion == Len(hs[1].r.Question) = 1
Q1 == hs[1].r.Question[1]

\* b is a written in some letter case, with or without one trailing dot
SameName(a, b) == ToLower(TrimSuffixDot(a)) = ToLower(TrimSuffixDot(b))

\* rr binds name to ip as an A record
Binds(rr, name, ip) == rr.Name = Fqdn(name) /\ rr.Rrtype = TypeA /\ rr.A = ip

\* C1 (as stated): for every entry name -> ip of config.Records (ip a well-formed
\* IPv4 literal), a single A question for name in any letter case, with or
\* without a trailing dot, is answered NOERROR with exactly one record binding
\* the queried name to ip.
C1_LocalAnswerForEveryEntry ==
    \A k \in DOMAIN config.Records :
        ( /\ Replied /\ SingleQuestion
          /\ Q1.Qtype = TypeA
          /\ SameName(Q1.Name, k)
          /\ IsIPv4(config.Records[k]) )
        => /\ Reply.Rcode = RcodeSuccess
           /\ Len(Reply.Answer) = 1
           /\ Binds(Reply.Answer[1], Q1.Name, config.Records[k])

\* C2 (as stated): with records {"a.": 10.0.0.1} and no fallback, A a. is answered
\* NOERROR with the one record a. A 10.0.0.1, and A b. is answered NXDOMAIN.
C2_TrailingDotKeyScenario ==
    ( /\ Replied /\ SingleQuestion
      /\ Q1.Qtype = TypeA
      /\ config.Records = [k \in {<<"a", ".">>} |-> <<10, 0, 0, 1>>]
      /\ config.FallbackDNS = "" )
    => /\ Q1.Name = <<"a", ".">> =>
            /\ Reply.Rcode = RcodeSuccess
            /\ Len(Reply.Answer) = 1
            /\ Binds(Reply.Answer[1], <<"a", ".">>, <<10, 0, 0, 1>>)
       /\ Q1.Name = <<"b", ".">> => Reply.Rcode = RcodeNameError

\* C3: a single question whose normalized name is no key of config.Records, with
\* fallback_dns empty, makes no upstream exchange and is answered NXDOMAIN.
C3_AbsentNameNoFallback ==
    ( /\ hs[1].pc # "idle" /\ SingleQuestion
      /\ LookupKey(Q1.Name) \notin DOMAIN config.Records
      /\ config.FallbackDNS = "" )
    => /\ hs[1].sent = <<>>
       /\ Replied => Reply.Rcode = RcodeNameError

C3_Witness ==
    /\ Replied /\ SingleQuestion
    /\ Q1.Qtype = TypeA
    /\ LookupKey(Q1.Name) \notin DOMAIN config.Records
    /\ config.Records # <<>>
    /\ config.FallbackDNS = ""
    /\ Reply.Rcode = RcodeNameError

\* C4 (as stated): a single question of a type other than A, with fallback_dns
\* empty, is answered NOTIMP.
C4_NonAddressNoFallback ==
    ( /\ Replied /\ SingleQuestion
      /\ Q1.Qtype # TypeA
      /\ config.FallbackDNS = "" )
    => Reply.Rcode = RcodeNotImplemented

Sent == hs[1].sent
LastSent == Sent[Len(Sent)]
Succeeded(i) == Sent[i].done /\ Sent[i].resp # <<>>
Failed(i) == Sent[i].done /\ Sent[i].resp = <<>>

\* the last exchange of the request that succeeded
LastSucceeded ==
    CHOOSE i \in 1..Len(Sent) : Succeeded(i) /\ \A j \in (i + 1)..Len(Sent) : ~Succeeded(j)

\* C5 (as stated): when a relay exchange of the request succeeds, the reply
\* written is exactly the upstream response, whatever the other questions of
\* the message did.
C5_ReplyIsUpstreamMessage ==
    (Replied /\ \E i \in 1..Len(Sent) : Succeeded(i))
    => Reply = Sent[LastSucceeded].resp[1]

\* C5 (amended): when the relay exchange made for the last question of the
\* message succeeds, the reply written is exactly the upstream response.
C5_LastQuestionRelayed ==
    ( /\ Replied /\ Sent # <<>>
      /\ LastSent.qi = Len(hs[1].r.Question)
      /\ Succeeded(Len(Sent)) )
    => Reply = LastSent.resp[1]

C5_Witness ==
    /\ Replied
    /\ hs[1].trace = <<"local", "relayed">>
    /\ config.FallbackDNS # ""
    /\ Reply = LastSent.resp[1]
    /\ Reply.Rcode = RcodeNameError
    /\ Reply.Ns # <<>>

\* C6 (as stated): when a relay exchange fails, the reply written carries
\* SERVFAIL, no question is exchanged twice, and the process keeps running.
C6_FailedRelayIsServFail ==
    \A i \in 1..Len(Sent) :
        Failed(i) =>
            /\ Replied => Reply.Rcode = RcodeServerFailure
            /\ \A j \in 1..Len(Sent) : j # i => Sent[j].qi # Sent[i].qi
            /\ process = "running"

\* a question after question k replaced the reply or set another response code
Overwritten(k) ==
    \E n \in (k + 1)..Len(hs[1].trace) : hs[1].trace[n] \in {"relayed", "nxdomain"}

\* C6 (amended): when a relay exchange fails, the handler sets SERVFAIL for that
\* question, exchanges no question twice and returns normally; the reply written
\* carries SERVFAIL unless a later question of the message replaced the reply
\* (a successful relay) or set NXDOMAIN.
C6_FailedRelaySetsServFail ==
    \A i \in 1..Len(Sent) :
        Failed(i) =>
            /\ hs[1].trace[Sent[i].qi] = "relayfail"
            /\ (Len(hs[1].trace) = Sent[i].qi) => hs[1].msg.Rcode = RcodeServerFailure
            /\ (Replied /\ ~Overwritten(Sent[i].qi)) => Reply.Rcode = RcodeServerFailure
            /\ \A j \in 1..Len(Sent) : j # i => Sent[j].qi # Sent[i].qi
            /\ hs[1].pc # "exchange" \/ i < Len(Sent)
            /\ process = "running"

C6_Witness ==
    /\ Replied
    /\ hs[1].trace = <<"relayfail", "local">>
    /\ Reply.Rcode = RcodeServerFailure
    /\ Len(Reply.Answer) = 1
    /\ Len(Sent) = 1

\* C8: with fallback_dns set, every question of a type other than A is relayed,
\* also when its name is a key of config.Records: it is never looked up or
\* answered locally nor rejected, and the upstream response becomes the reply.
C8_OtherTypesAlwaysRelayed ==
    config.FallbackDNS # "" =>
        /\ \A i \in 1..Len(hs[1].trace) :
              hs[1].r.Question[i].Qtype # TypeA =>
                  /\ hs[1].trace[i] \in {"relayed", "relayfail"}
                  /\ \E j \in 1..Len(Sent) :
                        /\ Sent[j].qi = i /\ Sent[j].m = hs[1].r
                        /\ (i = Len(hs[1].trace) /\ hs[1].trace[i] = "relayed")
                               => hs[1].msg = Sent[j].resp[1]
        /\ hs[1].pc \in {"records", "recordsUnlock"}
              => hs[1].r.Question[hs[1].qi].Qtype = TypeA

C8_Witness ==
    /\ Replied /\ SingleQuestion
    /\ Q1.Qtype = TypeMX
    /\ LookupKey(Q1.Name) \in DOMAIN config.Records
    /\ IsIPv4(config.Records[LookupKey(Q1.Name)])
    /\ hs[1].trace = <<"relayed">>
    /\ Reply = LastSent.resp[1]

\* C9: every relay exchange sends the incoming message itself to the snapshot's
\* fallback address at port 53 over the transport the message arrived on.
C9_ExchangeSameMessageSameTransport ==
    \A i \in 1..Len(Sent) :
        /\ Sent[i].m = hs[1].r
        /\ Sent[i].addr = config.FallbackDNS \o ":53"
        /\ Sent[i].net = hs[1].net

C9_Witness ==
    /\ Len(Sent) = 2
    /\ Sent[2].net = "tcp"
    /\ Sent[2].addr = "10.0.0.53:53"
    /\ Sent[2].m = hs[1].r
    /\ Failed(1)

\* the watcher's loadConfig returns an error
FailedReloadStep == watcher.pc = "load" /\ watcher'.pc = "watching"

\* the outcome of looking a question up in snapshot c
Lookup(c, q) == <<MapGet(c.Records, LookupKey(q.Name)), c.FallbackDNS>>

\* C7: a reload that fails leaves the live snapshot as it was (records,
\* fallback_dns and server fields), the process keeps running, and every lookup
\* has the outcome it had before.
C7_FailedReloadKeepsSnapshot ==
    [][FailedReloadStep =>
          /\ config' = config
          /\ process' = "running"
          /\ \A q \in Questions : Lookup(config', q) = Lookup(config, q)]_vars

C7_Witness ==
    /\ watcher.failed = 1 /\ watcher.pc = "watching"
    /\ file = Unparsable
    /\ config = MainDefaults(PortDefaults(Unmarshal(boot.doc)))
    /\ hs[1].pc = "recordsUnlock"
    /\ hs[1].found = <<BootRecords[<<"a">>]>>
    /\ hs[2].pc = "done"
    /\ process = "running"

\* the process was started with server.udp and server.tcp absent
BootServerAbsent ==
    boot.state = "ok" /\ boot.doc.udp = NoServerDoc /\ boot.doc.tcp = NoServerDoc

\* C10 (as stated): started with both enabled flags and both ports absent, main
\* starts a UDP and a TCP listener, each on port 53.
C10_BothListenersOnPort53 ==
    (BootServerAbsent /\ main.pc \in {"check", "wait"})
    => \A n \in Nets : listeners[n].state # "off" /\ listeners[n].Port = DefaultPort

\* the process was started with server.udp.enabled and server.tcp.enabled both
\* written out as false
BootBothDisabled ==
    /\ boot.state = "ok"
    /\ boot.doc.udp.enabled = <<FALSE>>
    /\ boot.doc.tcp.enabled = <<FALSE>>

\* C11 (as stated): started with server.udp.enabled and server.tcp.enabled both
\* explicitly false, main starts no listener and never waits on one: it ends the
\* process with the fatal error of line 278.
C11_ExplicitlyDisabledIsFatal ==
    BootBothDisabled =>
        /\ \A n \in Nets : listeners[n].state = "off"
        /\ main.pc # "wait"

\* the exits of the process, all through log.Fatalf
FatalExits ==
    {"fatal: initial config", "fatal: no servers", "fatal: watcher", "fatal: server error"}

SomeListenerStopped == \E n \in Nets : listeners[n].state = "stopped"

\* C12: once the loop of a started listener has returned (a bind error or a
\* later stop, UDP or TCP, one or both), the process eventually exits with a
\* fatal error; a listener that stopped is never started again.
C12_ListenerStopIsFatal ==
    /\ SomeListenerStopped ~> (process \in FatalExits)
    /\ [][\A n \in Nets : listeners[n].state = "stopped"
                               => listeners'[n].state = "stopped"]_vars

C12_Witness ==
    /\ process = "fatal: server error"
    /\ listeners["tcp"].state = "stopped"
    /\ listeners["udp"].state = "serving"

\* main is past its defaults and no loadConfig is between Lock() and Unlock():
\* config is a snapshot readers can see
SnapshotLive == main.pc \notin {"load", "defaults"} /\ ~lock.writer

\* C13 (as stated): every live snapshot, after the initial load and after every
\* successful reload, has both ports positive and at least one of
\* Server.UDP.Enabled and Server.TCP.Enabled true.
C13_LiveSnapshotFullyDefaulted ==
    SnapshotLive =>
        /\ config.Server.UDP.Port > 0 /\ config.Server.TCP.Port > 0
        /\ config.Server.UDP.Enabled \/ config.Server.TCP.Enabled

\* some goroutine is between RLock() and RUnlock()
ReadLocked == lock.readers # {}

\* loadConfig is between config = newConfig and its Unlock()
HalfWritten == watcher.pc \in {"assign", "ports", "unlock"}

\* C14: while a reader holds the read lock no writer holds the lock, loadConfig
\* is not inside its assignment-and-defaults section, and config has both ports
\* positive; config changes only while the writer holds the lock and no reader
\* does.
C14_NoHalfWrittenSnapshot ==
    /\ [](ReadLocked =>
            /\ ~lock.writer
            /\ ~HalfWritten
            /\ config.Server.UDP.Port > 0 /\ config.Server.TCP.Port > 0)
    /\ [][config' # config =>
            /\ lock.writer /\ lock.readers = {}
            /\ lock'.writer /\ lock'.readers = {}]_vars

C14_Witness ==
    /\ lock.writer
    /\ watcher.pc = "ports"
    /\ config.Server.TCP.Port = 0
    /\ config # MainDefaults(PortDefaults(Unmarshal(boot.doc)))
    /\ hs[1].pc = "records"
    /\ hs[2].pc = "fallback"

\* loadConfig returns nil to the watcher: the reload is complete
ReloadCompletes == watcher.pc = "unlock" /\ watcher'.pc = "watching"

\* the watcher takes an event of a kind other than write or create, or an error
OtherEventTaken ==
    /\ watcher.pc = "watching" /\ events # <<>> /\ events' = Tail(events)
    /\ Head(events) \notin ReloadKinds

\* handler h reads config.FallbackDNS / config.Records in this step
ReadsFallback(h) == hs[h].pc = "fallback" /\ hs'[h].pc = "fallbackUnlock"
ReadsRecords(h) == hs[h].pc = "records" /\ hs'[h].pc = "recordsUnlock"

\* C15: when a reload completes, the live snapshot holds the records and the
\* fallback of the document loadConfig parsed and the process is still running;
\* the snapshot changes nowhere else, so each read of a request handled
\* afterwards returns the new fallback and the new records entry; an event of
\* another kind, or a watcher error, starts no reload and changes nothing.
C15_ReloadTakesEffect ==
    [][ /\ ReloadCompletes =>
              /\ config'.Records = watcher.newConfig.Records
              /\ config'.FallbackDNS = watcher.newConfig.FallbackDNS
              /\ process' = "running"
        /\ config' # config => watcher.pc \in {"assign", "ports"}
        /\ \A h \in Handlers :
              /\ ReadsFallback(h) => hs'[h].fallbackDNS = config.FallbackDNS
              /\ ReadsRecords(h) =>
                    hs'[h].found = MapGet(config.Records,
                                          LookupKey(hs[h].r.Question[hs[h].qi].Name))
        /\ OtherEventTaken => config' = config /\ watcher'.pc = "watching"
      ]_vars

\* the records entry and the fallback were dropped by a reload, and a request
\* handled afterwards got NXDOMAIN
C15_Witness ==
    /\ boot.doc.records = BootRecords /\ boot.doc.fallback_dns # Absent
    /\ watcher.loaded = 1 /\ watcher.pc = "watching"
    /\ config.Records = <<>> /\ config.FallbackDNS = ""
    /\ hs[1].pc = "done"
    /\ hs[1].trace = <<"nxdomain">>
    /\ hs[1].sent = <<>>
    /\ process = "running"

\* a step of the watchConfig goroutine
WatcherStep == watcher' # watcher

\* main has finished starting listeners
ListenersDecided == main.pc \in {"check", "wait"}

\* C16: a listener runs on the port and interface main read into its locals
\* at startup; no step of the watcher, reloads included, changes any listener;
\* a listener that was started keeps its port and interface and is never turned
\* off or started again, and once main has started its listeners one that was
\* not started stays off.
C16_ReloadLeavesListeners ==
  /\ [](\A n \in Nets :
          listeners[n].state # "off" =>
              /\ main[n].Enabled
              /\ listeners[n].Port = main[n].Port
              /\ listeners[n].Interface = main[n].Interface)
  /\
    [][ /\ WatcherStep => listeners' = listeners
        /\ \A n \in Nets :
              /\ listeners[n].state # "off" =>
                    /\ listeners'[n].Port = listeners[n].Port
                    /\ listeners'[n].Interface = listeners[n].Interface
                    /\ listeners'[n].state # "off"
                    /\ listeners'[n].state = "started" => listeners[n].state = "started"
              /\ (ListenersDecided /\ listeners[n].state = "off")
                    => listeners'[n].state = "off"
      ]_vars

\* a reload disabled UDP and moved it to port 5353 in the snapshot while the
\* UDP listener started on port 53 keeps serving there
C16_Witness ==
    /\ watcher.loaded = 1
    /\ ~config.Server.UDP.Enabled /\ config.Server.UDP.Port = 5353
    /\ listeners["udp"].state = "serving" /\ listeners["udp"].Port = DefaultPort
    /\ listeners["tcp"].state = "serving" /\ listeners["tcp"].Port = DefaultPort
    /\ main.pc = "wait"
    /\ process = "running"

\* question i of the request is an A question whose normalized name is a key
\* of config.Records
InRecords(i) ==
    /\ hs[1].r.Question[i].Qtype = TypeA
    /\ LookupKey(hs[1].r.Question[i].Name) \in DOMAIN config.Records

\* C17: an A question whose normalized name is a key of config.Records takes the
\* local branch (an answer, or SERVFAIL when the configured address is
\* malformed) and no exchange is ever made for it, with or without fallback_dns;
\* every exchange made is for a question that is not such a question.
C17_LocalHitNeverRelayed ==
    /\ \A i \in 1..Len(hs[1].trace) :
          InRecords(i) =>
              /\ hs[1].trace[i] \in {"local", "localfail"}
              /\ hs[1].trace[i] = "local"
                    <=> IsIPv4(config.Records[LookupKey(hs[1].r.Question[i].Name)])
    /\ \A j \in 1..Len(Sent) : ~InRecords(Sent[j].qi)
    /\ hs[1].pc \in {"relay", "exchange"} => ~InRecords(hs[1].qi)

\* a malformed address with fallback_dns set: SERVFAIL for that question and the
\* one exchange of the request is for the other question
C17_Witness ==
    /\ hs[1].pc = "write"
    /\ hs[1].trace = <<"localfail", "relayfail">>
    /\ config.FallbackDNS # ""
    /\ Len(Sent) = 1 /\ Sent[1].qi = 2
    /\ hs[1].r.Question[2].Qtype = TypeA
    /\ hs[1].msg.Rcode = RcodeServerFailure /\ hs[1].msg.Answer = <<>>

\* the step ends the process through one of main's or watchConfig's log.Fatalf
InitialLoadFails ==
    /\ process' = "fatal: initial config"
    /\ main.pc = "load" /\ ReadConfig(file) = <<>>

NoListenerEnabled ==
    /\ process' = "fatal: no servers"
    /\ main.pc = "check" /\ main.servers = 0
    /\ \A n \in Nets : listeners[n].state = "off"

WatcherNotEstablished ==
    /\ process' = "fatal: watcher"
    /\ \E nw \in BOOLEAN, af \in BOOLEAN, ad \in BOOLEAN :
          /\ ~nw \/ (~af /\ ~ad)
          /\ WatchSetup(nw, af, ad)

ListenerLoopEnded ==
    /\ process' = "fatal: server error"
    /\ main.pc = "wait" /\ SomeListenerStopped

\* C18: the process leaves "running" only on a failed initial load, on
\* servers == 0, on a watcher that could be set up neither on the file nor on
\* its directory, or on a stopped listener; no step of a request handler
\* (whatever its outcome, a failed WriteMsg included) and no return of
\* loadConfig in the watcher, failed or not, ends it.
C18_ExitsOnlyByListedCauses ==
    [][ /\ process' # process =>
              /\ process = "running"
              /\ InitialLoadFails \/ NoListenerEnabled
                    \/ WatcherNotEstablished \/ ListenerLoopEnded
              /\ hs' = hs
        /\ hs' # hs => process' = "running"
        /\ (WatcherStep /\ watcher.pc # "setup") => process' = "running"
      ]_vars

\* a reload failed and a reply could not be written, and the process runs on
C18_Witness ==
    /\ process = "running"
    /\ main.pc = "wait"
    /\ watcher.failed = 1
    /\ hs[1].pc = "done"
    /\ ~hs[1].wrote[1].ok

\* the watcher takes a write or create event off watcher.Events
ReloadEventTaken ==
    /\ watcher.pc = "watching" /\ events # <<>> /\ events' = Tail(events)
    /\ Head(events) \in ReloadKinds

\* C19: with a watcher created, setup ends the process exactly when neither the
\* file nor its directory can be added; when only the directory can, the
\* watcher runs on the directory and the process keeps running; a write or
\* create event starts a reload whichever of the two is watched.
C19_DirectoryFallback ==
    [][ /\ \A af \in BOOLEAN, ad \in BOOLEAN :
              WatchSetup(TRUE, af, ad) =>
                  /\ process' # "running" <=> (~af /\ ~ad)
                  /\ (~af /\ ad) => /\ watcher'.pc = "watching"
                                    /\ watcher'.mode = "dir"
                                    /\ process' = "running"
        /\ ReloadEventTaken => watcher'.pc = "load" /\ process' = "running"
      ]_vars

\* watching the directory, a write event was reloaded into the live snapshot
C19_Witness ==
    /\ watcher.mode = "dir" /\ watcher.pc = "watching"
    /\ watcher.loaded = 1
    /\ boot.doc.records = BootRecords
    /\ file.state = "ok" /\ file.doc.records = <<>>
    /\ config.Records = <<>>
    /\ process = "running"

\* the snapshot main made live at startup
BootSnapshot == MainDefaults(PortDefaults(Unmarshal(boot.doc)))

\* the outcome decided for an A question from a records entry and a fallback:
\* the local answer when the entry exists, else the relay to the fallback
\* (NXDOMAIN when it is empty)
Outcome(found, fallbackDNS) ==
    IF found # <<>> THEN <<"local", found[1]>> ELSE <<"relay", fallbackDNS>>

\* the outcome for question q under snapshot c alone
Resolve(c, q) == Outcome(Lookup(c, q)[1], Lookup(c, q)[2])

\* C20 (as stated): the outcome a handler decides for a question is the outcome
\* of one snapshot that was live during the request. With at most one file
\* operation so far the snapshots that were ever live are the startup one and
\* the current one.
C20_OneSnapshotPerQuestion ==
    edits <= 1 =>
        \A h \in Handlers :
            hs[h].pc = "recordsUnlock" =>
                \E c \in {BootSnapshot, config} :
                    Resolve(c, hs[h].r.Question[hs[h].qi])
                        = Outcome(hs[h].found, hs[h].fallbackDNS)

\* handler h is inside c.Exchange or about to call w.WriteMsg
InFlight(h) == hs[h].pc \in {"exchange", "write"}

\* C21: a handler inside a relay exchange or a reply write holds no lock (the
\* read lock is held exactly inside the two read sections), so a reload that
\* has asked for the write lock gets it and completes although exchanges never
\* return; the return of an exchange and the reply write are never blocked.
C21_NoLockAcrossExchange ==
    /\ [](lock.readers = {h \in Handlers : hs[h].pc \in {"fallbackUnlock", "recordsUnlock"}})
    /\ [](\A h \in Handlers :
            /\ hs[h].pc = "exchange" => ENABLED ExchangeErr(h)
            /\ hs[h].pc = "write" => ENABLED WriteMsg(h, TRUE))
    /\ (watcher.pc \in {"lock", "locking"}) ~> (watcher.pc = "watching" /\ watcher.loaded > 0)

\* loadConfig holds the write lock while both handlers are inside an exchange
C21_Witness ==
    /\ lock.writer /\ watcher.pc = "assign"
    /\ hs[1].pc = "exchange" /\ hs[2].pc = "exchange"
    /\ ~hs[1].sent[1].done /\ ~hs[2].sent[1].done

\* the questions of the request handled so far, and the branch each took
Trace == hs[1].trace
Handled == 1..Len(Trace)

\* the last question handled so far whose relay succeeded, 0 when there is none
LastRelayed ==
    IF \E i \in Handled : Trace[i] = "relayed"
    THEN CHOOSE i \in Handled :
            Trace[i] = "relayed" /\ \A j \in Handled : Trace[j] = "relayed" => j <= i
    ELSE 0

\* the exchange made for question i
SentFor(i) == Sent[CHOOSE j \in 1..Len(Sent) : Sent[j].qi = i]

\* the records appended for the questions i..n that were answered locally
RECURSIVE LocalAnswers(_, _)
LocalAnswers(i, n) ==
    IF i > n THEN <<>>
    ELSE (IF Trace[i] = "local"
          THEN NewRR(hs[1].r.Question[i].Name,
                     config.Records[LookupKey(hs[1].r.Question[i].Name)])
          ELSE <<>>) \o LocalAnswers(i + 1, n)

\* the questions after question k that set an error code, and the code of a branch
ErrorsAfter(k) ==
    {i \in Handled : i > k /\ Trace[i] \in {"nxdomain", "relayfail", "localfail"}}
ErrorCode(branch) ==
    IF branch = "nxdomain" THEN RcodeNameError ELSE RcodeServerFailure

\* base changed by the questions after question k: their local answers appended
\* in order and the code of the last of them that set one
ChangedBy(base, k) ==
    [base EXCEPT
        !.Answer = @ \o LocalAnswers(k + 1, Len(Trace)),
        !.Rcode = IF ErrorsAfter(k) = {} THEN @
                  ELSE ErrorCode(Trace[CHOOSE i \in ErrorsAfter(k) :
                                          \A j \in ErrorsAfter(k) : j <= i])]

\* C22 (as stated): when more than one question of the message is relayed and a
\* relay succeeded, the reply written is the upstream message of the last
\* question relayed successfully.
C22_LastRelayedMessageIsReply ==
    (Replied /\ Len(Sent) > 1 /\ LastRelayed > 0)
    => Reply = SentFor(LastRelayed).resp[1]

\* C22 (amended): questions are handled in message order; a successful relay
\* replaces the whole reply built so far by its upstream message, and the
\* questions after it still change that message (a local answer is appended, an
\* error sets its code): the reply written is the upstream message of the last
\* successful relay changed by the questions that follow it, and holds nothing
\* of what was built before.
C22_LastRelayReplacesReply ==
    /\ hs[1].pc \notin {"idle", "write", "done"} => hs[1].qi = Len(Trace) + 1
    /\ \A j \in 1..Len(Sent) : \A k \in 1..Len(Sent) : j < k => Sent[j].qi < Sent[k].qi
    /\ LastRelayed > 0 =>
          hs[1].msg = ChangedBy(SentFor(LastRelayed).resp[1], LastRelayed)
    /\ (Replied /\ LastRelayed > 0) =>
          Reply = ChangedBy(SentFor(LastRelayed).resp[1], LastRelayed)

\* two questions relayed with different upstream messages: the second is written
C22_Witness ==
    /\ Replied
    /\ Trace = <<"relayed", "relayed">>
    /\ Sent[1].resp[1].Rcode = RcodeSuccess /\ Sent[1].resp[1].Answer # <<>>
    /\ Sent[2].resp[1].Rcode = RcodeNameError
    /\ Reply = Sent[2].resp[1]
    /\ Reply.Answer = <<>>

\* C23: a request makes no WriteMsg call before every question has been handled
\* and exactly one once it has, of the reply built, whether or not the call
\* fails; the handler then returns without a trace of the failure, the process
\* keeps running and the next message can be served.
C23_OneWriteAfterAllQuestions ==
    /\ hs[1].pc = "done" <=> Len(hs[1].wrote) = 1
    /\ hs[1].pc # "done" => hs[1].wrote = <<>>
    /\ hs[1].pc \in {"write", "done"} => Len(Trace) = Len(hs[1].r.Question)
    /\ hs[1].pc = "done" => hs[1].wrote[1].msg = hs[1].msg
    /\ hs[1].pc = "idle" => hs[1] = IdleHandler /\ ENABLED ServeAny
    /\ process = "running"

\* the one write of a two-question request failed
C23_Witness ==
    /\ hs[1].pc = "done"
    /\ Len(hs[1].r.Question) = 2 /\ Len(Trace) = 2
    /\ hs[1].wrote = << [msg |-> hs[1].msg, ok |-> FALSE] >>
    /\ process = "running"

\* C24 (as stated): every reply written has the response flag set, the Id of
\* the incoming message and the authoritative flag set.
C24_WrittenReplyAuthoritative ==
    Replied =>
        /\ Reply.Response
        /\ Reply.Id = hs[1].r.Id
        /\ Reply.Authoritative

\* C24 (amended): every reply written has the Id of the incoming message; when
\* no relay of the request succeeded its response flag and its authoritative
\* flag are both set, and otherwise both flags are those of the upstream
\* message of the last successful relay, whatever the upstream set them to.
C24_WrittenReplyFlags ==
    Replied =>
        /\ Reply.Id = hs[1].r.Id
        /\ LastRelayed = 0 => Reply.Response /\ Reply.Authoritative
        /\ LastRelayed > 0 =>
              /\ Reply.Response = SentFor(LastRelayed).resp[1].Response
              /\ Reply.Authoritative = SentFor(LastRelayed).resp[1].Authoritative

\* a relayed message that the upstream sent with neither flag set, written as
\* the reply with a local answer appended
C24_Witness ==
    /\ Replied
    /\ Trace = <<"relayed", "local">>
    /\ ~Sent[1].resp[1].Response /\ ~Sent[1].resp[1].Authoritative
    /\ ~Reply.Response /\ ~Reply.Authoritative
    /\ Reply.Id = hs[1].r.Id
    /\ Len(Reply.Answer) = 2

\* C25: while no question of the request has been relayed successfully, the
\* reply is the one built from the incoming message with one record appended
\* per question answered locally, in message order, and with the code of the
\* last question that set an error (NXDOMAIN or SERVFAIL), which no later local
\* answer resets; that is the reply written.
C25_ErrorCodeSurvivesLocalAnswers ==
    (hs[1].pc # "idle" /\ LastRelayed = 0) =>
        /\ hs[1].msg = ChangedBy(SetReply(hs[1].r), 0)
        /\ Replied => Reply = ChangedBy(SetReply(hs[1].r), 0)
        /\ Len(hs[1].msg.Answer) = Cardinality({i \in Handled : Trace[i] = "local"})
        /\ hs[1].msg.Rcode = RcodeSuccess <=> ErrorsAfter(0) = {}

\* NXDOMAIN for the first question and a local answer for the second, written
\* together
C25_Witness ==
    /\ Replied
    /\ Trace = <<"nxdomain", "local">>
    /\ Reply.Rcode = RcodeNameError
    /\ Len(Reply.Answer) = 1
    /\ Binds(Reply.Answer[1], hs[1].r.Question[2].Name,
             config.Records[LookupKey(hs[1].r.Question[2].Name)])

====
